---- MODULE Spec2Model ----
(***************************************************************************)
(* The voice assistant of walterhill/aiwalt: the Assistant orchestrator    *)
(* (src/aiwalt/core/assistant.py), the WakeWordDetector it drives          *)
(* (src/aiwalt/audio/wake_word.py) and the ConversationEngine              *)
(* (src/aiwalt/ai/brain.py), as threads taking one statement at a time.    *)
(* Thread 1 is the caller of Assistant.run(); thread d > 1 is the daemon   *)
(* thread that _restart_wake_listener starts on detector d.                *)
(* A text is a sequence of one-character strings, so that strip(), lower() *)
(* and rstrip(".") are computed character by character.                    *)
(***************************************************************************)
EXTENDS Integers, Sequences, FiniteSets, TLC

\* ------------------------------------------------------------------ bounds

\* WakeWordDetector objects (and so threads) one run may construct
MaxDet == 2

\* ConversationEngine.max_history (settings.conversation_history_limit; the
\* engine of test_history_trimming has 2)
max_history == 2

\* user/assistant pairs a test appends to the engine's history by hand (10 in
\* test_history_trimming)
MaxPairs == 10

\* calls made on a ConversationEngine that is used on its own
MaxCalls == 4

\* ------------------------------------------------------------------- texts

ACK_TEXT ==
     <<"Y", "e", "s", "?">>

NOTICE_TEXT ==
     <<"I", " ", "d", "i", "d", "n", "'", "t", " ", "c", "a", "t", "c", "h", " ", "t", "h", "a", "t", ".">>

FAREWELL_TEXT ==
     <<"G", "o", "o", "d", "b", "y", "e", "!">>

CONFIRM_TEXT ==
     <<"C", "o", "n", "v", "e", "r", "s", "a", "t", "i", "o", "n", " ", "h", "i", "s", "t", "o", "r", "y", " ", "c", "l", "e", "a", "r", "e", "d", ".", " ", "F", "r", "e", "s", "h", " ", "s", "t", "a", "r", "t", "!">>

APOLOGY_TEXT ==
     <<"I", " ", "r", "a", "n", " ", "i", "n", "t", "o", " ", "a", "n", " ", "e", "r", "r", "o", "r", ".", " ", "L", "e", "t", " ", "m", "e", " ", "r", "e", "s", "e", "t", ".">>

FALLBACK_REPLY ==
     <<"I", "'", "m", " ", "s", "o", "r", "r", "y", ",", " ", "I", " ", "h", "a", "d", " ", "t", "r", "o", "u", "b", "l", "e", " ", "r", "e", "a", "c", "h", "i", "n", "g", " ", "m", "y", " ", "b", "r", "a", "i", "n", " ", "j", "u", "s", "t", " ", "n", "o", "w", ".", " ", "C", "o", "u", "l", "d", " ", "y", "o", "u", " ", "t", "r", "y", " ", "a", "g", "a", "i", "n", "?">>

REPLY_TEXT ==
     <<"I", " ", "d", "o", "n", "'", "t", " ", "h", "a", "v", "e", " ", "t", "h", "a", "t", " ", "i", "n", "f", "o", "r", "m", "a", "t", "i", "o", "n", ".">>

exit_phrases ==
    {<<"g", "o", "o", "d", "b", "y", "e">>,
     <<"s", "h", "u", "t", " ", "d", "o", "w", "n">>,
     <<"e", "x", "i", "t">>,
     <<"q", "u", "i", "t">>,
     <<"p", "o", "w", "e", "r", " ", "o", "f", "f">>,
     <<"g", "o", " ", "t", "o", " ", "s", "l", "e", "e", "p">>}

reset_phrases ==
    {<<"r", "e", "s", "e", "t", " ", "c", "o", "n", "v", "e", "r", "s", "a", "t", "i", "o", "n">>,
     <<"c", "l", "e", "a", "r", " ", "h", "i", "s", "t", "o", "r", "y">>,
     <<"s", "t", "a", "r", "t", " ", "o", "v", "e", "r">>,
     <<"n", "e", "w", " ", "c", "o", "n", "v", "e", "r", "s", "a", "t", "i", "o", "n">>}

T_GOODBYE_DOT ==
     <<"g", "o", "o", "d", "b", "y", "e", ".">>

T_EXIT_CAPS ==
     <<"E", "x", "i", "t">>

T_RESET ==
     <<"r", "e", "s", "e", "t", " ", "c", "o", "n", "v", "e", "r", "s", "a", "t", "i", "o", "n">>

T_START_OVER ==
     <<"S", "t", "a", "r", "t", " ", "o", "v", "e", "r", ".">>

T_WEATHER ==
     <<"w", "h", "a", "t", "'", "s", " ", "t", "h", "e", " ", "w", "e", "a", "t", "h", "e", "r">>

T_PADDED ==
     <<" ", "o", "k", ".", " ">>

T_BLANK ==
     <<" ", " ">>

T_GOODBYE_CAP_DOT ==
    <<"G", "o", "o", "d", "b", "y", "e", ".">>

T_GOODBYE_UPPER ==
    <<"G", "O", "O", "D", "B", "Y", "E">>

T_GOODBYE_BANG ==
    <<"g", "o", "o", "d", "b", "y", "e", "!">>

T_CLEAR_QUERY ==
    <<"c", "l", "e", "a", "r", " ", "h", "i", "s", "t", "o", "r", "y", "?">>

T_QUIT_LEADING ==
    <<".", ".", ".", "q", "u", "i", "t">>

\* the transcripts and the reply the collaborators may deliver
Transcripts ==
    {T_GOODBYE_DOT, T_RESET, T_WEATHER, T_BLANK}

Replies ==
    {REPLY_TEXT}

\* ---------------------------------------------------------- str operations

Whitespace ==
    {" ", "\t", "\n"}

UpperCase ==
    <<"A", "B", "C", "D", "E", "F", "G", "H", "I", "J", "K", "L", "M",
      "N", "O", "P", "Q", "R", "S", "T", "U", "V", "W", "X", "Y", "Z">>

LowerCase ==
    <<"a", "b", "c", "d", "e", "f", "g", "h", "i", "j", "k", "l", "m",
      "n", "o", "p", "q", "r", "s", "t", "u", "v", "w", "x", "y", "z">>

\* str.lower() on one character
LowerChar(c) ==
    IF \E i \in 1..26 : UpperCase[i] = c
    THEN LowerCase[CHOOSE i \in 1..26 : UpperCase[i] = c]
    ELSE c

\* str.lower()
Lower(s) ==
    [i \in 1..Len(s) |-> LowerChar(s[i])]

RECURSIVE RStripChars(_, _)
\* str.rstrip(chars): drops every trailing character that is in chars
RStripChars(s, chars) ==
    IF s # <<>> /\ s[Len(s)] \in chars
    THEN RStripChars(SubSeq(s, 1, Len(s) - 1), chars)
    ELSE s

RECURSIVE LStripChars(_, _)
\* str.lstrip(chars)
LStripChars(s, chars) ==
    IF s # <<>> /\ s[1] \in chars
    THEN LStripChars(Tail(s), chars)
    ELSE s

\* str.strip(): drops leading and trailing whitespace
Strip(s) ==
    LStripChars(RStripChars(s, Whitespace), Whitespace)

\* Assistant._is_exit_command
is_exit_command(text) ==
    RStripChars(Lower(text), {"."}) \in exit_phrases

\* Assistant._is_reset_command
is_reset_command(text) ==
    RStripChars(Lower(text), {"."}) \in reset_phrases

\* ------------------------------------------------------ ConversationEngine

\* ConversationMessage
ConversationMessage(role, content) ==
    [role |-> role, content |-> content]

\* LastSlice that keeps the oldest n messages instead of the most recent
LastSlice_Oldest(h, n) ==
    IF n = 0 \/ n >= Len(h) THEN h ELSE SubSeq(h, 1, n)

\* the Python slice h[-n:] (h[-0:] is the whole list)
LastSlice(h, n) ==
    IF n = 0 \/ n >= Len(h) THEN h ELSE SubSeq(h, Len(h) - n + 1, Len(h))

\* ConversationEngine._trim_history of an engine whose max_history is limit
trim_to(h, limit) ==
    LET max_messages == limit * 2
    IN  IF Len(h) > max_messages THEN LastSlice(h, max_messages) ELSE h

\* ConversationEngine._trim_history
trim_history(h) ==
    trim_to(h, max_history)

\* a chat that sends the session without the message it was given
chat_request_UserNotSent(h, user_text) ==
    trim_history(h)

\* ConversationEngine.chat, up to the request: the user message is appended
\* and the history trimmed; the result is what the collaborator is sent
chat_request(h, user_text) ==
    trim_history(Append(h, ConversationMessage("user", user_text)))

\* a chat that stores the reply under the user's role
chat_reply_AsUser(h, reply_text) ==
    Append(h, ConversationMessage("user", reply_text))

\* ConversationEngine.chat, after the request: the reply (the collaborator's
\* text, or the fallback after an anthropic.APIError) is appended
chat_reply(h, reply_text) ==
    Append(h, ConversationMessage("assistant", reply_text))

\* ------------------------------------------------------------------- state

Det == 1..MaxDet
Thread == 1..MaxDet

VARIABLES
    running,        \* Assistant._running
    lock,           \* Assistant._interaction_lock: 0 free, else the holding thread
    wake,           \* Assistant._wake: the detector the assistant refers to
    ndet,           \* WakeWordDetector objects constructed so far
    history,        \* ConversationEngine._history
    det_running,    \* WakeWordDetector._running, per detector
    det_recorder,   \* WakeWordDetector._recorder is not None, per detector
    det_porcupine,  \* WakeWordDetector._porcupine is not None, per detector
    rec,            \* the PvRecorder a detector's start() constructed
    pc,             \* the statement each thread is at
    stop_self,      \* the detector a thread's call of stop() works on
    stop_caller,    \* where a thread's call of stop() returns to
    exc,            \* the exception a thread is propagating through a finally
    in_except,      \* the thread is in the except branch of _handle_wake
    result,         \* _handle_wake's local result (TranscriptionResult)
    reply,          \* _handle_wake's local reply
    ilog,           \* what the interaction holding the lock has called so far
    exit_seen,      \* an exit command has cleared the running flag
    fault,          \* a listener device call (recorder start/stop, thread start) failed
    interrupted     \* a KeyboardInterrupt was delivered to thread 1

assistantVars == <<running, lock, wake, ndet, history>>
detVars == <<det_running, det_recorder, det_porcupine, rec>>
localVars == <<stop_self, stop_caller, exc, in_except, result, reply>>
ghostVars == <<ilog, exit_seen, fault, interrupted>>
vars == <<assistantVars, detVars, localVars, ghostVars, pc>>

NoResult == [success |-> FALSE, text |-> <<>>, reason |-> "none"]

\* SpeechToText.recognize_once: the TranscriptionResult values it returns
Results ==
    [success : {TRUE}, text : Transcripts, reason : {""}]
    \cup [success : {FALSE}, text : {<<>>}, reason : {"no_match", "canceled"}]

\* one call made by the interaction in progress
Ev(op, text, ret, n) ==
    [op |-> op, text |-> text, ret |-> ret, n |-> n]

Goto(t, label) ==
    pc' = [pc EXCEPT ![t] = label]

Init ==
    /\ running = FALSE
    /\ lock = 0
    /\ wake = 1
    /\ ndet = 1
    /\ history = <<>>
    /\ det_running = [d \in Det |-> FALSE]
    /\ det_recorder = [d \in Det |-> FALSE]
    /\ det_porcupine = [d \in Det |-> FALSE]
    /\ rec = [d \in Det |-> "absent"]
    /\ pc = [t \in Thread |-> IF t = 1 THEN "run" ELSE "unborn"]
    /\ stop_self = [t \in Thread |-> 0]
    /\ stop_caller = [t \in Thread |-> "none"]
    /\ exc = [t \in Thread |-> "none"]
    /\ in_except = [t \in Thread |-> FALSE]
    /\ result = [t \in Thread |-> NoResult]
    /\ reply = [t \in Thread |-> <<>>]
    /\ ilog = <<>>
    /\ exit_seen = FALSE
    /\ fault = FALSE
    /\ interrupted = FALSE

\* ------------------------------------------------ WakeWordDetector.start

\* start() of thread t's detector ends with exception e ("none": it returns).
\* Thread 1 is inside run(): its except KeyboardInterrupt and its finally
\* lead to shutdown(); a daemon thread ends.
AfterStart(t, e) ==
    IF t = 1
    THEN /\ Goto(t, "shutdown")
         /\ exc' = [exc EXCEPT ![t] = IF e = "KeyboardInterrupt" THEN "none" ELSE e]
    ELSE /\ Goto(t, IF e = "none" THEN "ended" ELSE "died")
         /\ exc' = [exc EXCEPT ![t] = "none"]

\* Assistant.run up to the call of self._wake.start
Run(t) ==
    /\ pc[t] = "run"
    /\ running' = TRUE
    /\ Goto(t, "start_porcupine")
    /\ UNCHANGED <<lock, wake, ndet, history, detVars, localVars, ghostVars>>

\* self._porcupine = pvporcupine.create(...)
StartPorcupine(t) ==
    /\ pc[t] = "start_porcupine"
    /\ det_porcupine' = [det_porcupine EXCEPT ![t] = TRUE]
    /\ Goto(t, "start_recorder")
    /\ UNCHANGED <<assistantVars, det_running, det_recorder, rec, localVars, ghostVars>>

\* self._recorder = PvRecorder(frame_length=self._porcupine.frame_length, ...):
\* an AttributeError when a stop() has set _porcupine to None meanwhile
StartRecorder(t) ==
    /\ pc[t] = "start_recorder"
    /\ IF det_porcupine[t]
       THEN /\ det_recorder' = [det_recorder EXCEPT ![t] = TRUE]
            /\ rec' = [rec EXCEPT ![t] = "created"]
            /\ Goto(t, "start_recstart")
            /\ UNCHANGED exc
       ELSE /\ AfterStart(t, "Exception")
            /\ UNCHANGED <<det_recorder, rec>>
    /\ UNCHANGED <<assistantVars, det_running, det_porcupine, stop_self, stop_caller,
                   in_except, result, reply, ghostVars>>

\* self._recorder.start(): opens the microphone, or fails (device busy,
\* permission denied); an error on a recorder already set to None or deleted
StartRecStart(t) ==
    /\ pc[t] = "start_recstart"
    /\ \/ /\ det_recorder[t] /\ rec[t] \in {"created", "stopped"}
          /\ rec' = [rec EXCEPT ![t] = "started"]
          /\ Goto(t, "start_setrunning")
          /\ UNCHANGED <<exc, fault>>
       \/ /\ det_recorder[t] /\ rec[t] \in {"created", "stopped"}
          /\ fault' = TRUE
          /\ AfterStart(t, "Exception")
          /\ UNCHANGED rec
       \/ /\ ~(det_recorder[t] /\ rec[t] \in {"created", "stopped"})
          /\ AfterStart(t, "Exception")
          /\ UNCHANGED <<rec, fault>>
    /\ UNCHANGED <<assistantVars, det_running, det_recorder, det_porcupine, stop_self,
                   stop_caller, in_except, result, reply, ilog, exit_seen, interrupted>>

\* self._running = True
StartSetRunning(t) ==
    /\ pc[t] = "start_setrunning"
    /\ det_running' = [det_running EXCEPT ![t] = TRUE]
    /\ Goto(t, "loop")
    /\ UNCHANGED <<assistantVars, det_recorder, det_porcupine, rec, localVars, ghostVars>>

\* while self._running:
Loop(t) ==
    /\ pc[t] = "loop"
    /\ Goto(t, IF det_running[t] THEN "read" ELSE "start_finally")
    /\ UNCHANGED <<assistantVars, detVars, localVars, ghostVars>>

\* pcm = self._recorder.read(): an error when the recorder is None or no
\* longer started; the exception is not a KeyboardInterrupt, so the finally runs
Read(t) ==
    /\ pc[t] = "read"
    /\ IF det_recorder[t] /\ rec[t] = "started"
       THEN Goto(t, "process") /\ UNCHANGED exc
       ELSE Goto(t, "start_finally") /\ exc' = [exc EXCEPT ![t] = "Exception"]
    /\ UNCHANGED <<assistantVars, detVars, stop_self, stop_caller, in_except, result,
                   reply, ghostVars>>

\* result = self._porcupine.process(pcm); if result >= 0: on_wake()
Process(t) ==
    /\ pc[t] = "process"
    /\ IF det_porcupine[t]
       THEN /\ \E detected \in BOOLEAN : Goto(t, IF detected THEN "hw_acquire" ELSE "loop")
            /\ UNCHANGED exc
       ELSE Goto(t, "start_finally") /\ exc' = [exc EXCEPT ![t] = "Exception"]
    /\ UNCHANGED <<assistantVars, detVars, stop_self, stop_caller, in_except, result,
                   reply, ghostVars>>

\* finally: self.stop()
StartFinally(t) ==
    /\ pc[t] = "start_finally"
    /\ stop_self' = [stop_self EXCEPT ![t] = t]
    /\ stop_caller' = [stop_caller EXCEPT ![t] = "start"]
    /\ Goto(t, "stop_flag")
    /\ UNCHANGED <<assistantVars, detVars, exc, in_except, result, reply, ghostVars>>

\* ------------------------------------------------- WakeWordDetector.stop

\* an Exception raised by a statement of _handle_wake's try block goes to the
\* except branch; raised in the except branch it leaves through the finally
RaiseInHandleWake(t) ==
    IF ~in_except[t]
    THEN /\ Goto(t, "hw_except")
         /\ in_except' = [in_except EXCEPT ![t] = TRUE]
         /\ UNCHANGED exc
    ELSE /\ Goto(t, "hw_finally")
         /\ exc' = [exc EXCEPT ![t] = "Exception"]
         /\ UNCHANGED in_except

\* stop() returns to the statement after its call
StopReturn(t) ==
    /\ stop_self' = [stop_self EXCEPT ![t] = 0]
    /\ stop_caller' = [stop_caller EXCEPT ![t] = "none"]
    /\ CASE stop_caller[t] = "hw" ->
                Goto(t, "hw_ack") /\ UNCHANGED <<exc, in_except>>
         [] stop_caller[t] = "start" ->
                AfterStart(t, exc[t]) /\ UNCHANGED in_except
         [] stop_caller[t] = "shutdown_again" ->
                Goto(t, "returned_again") /\ UNCHANGED <<exc, in_except>>
         [] OTHER ->
                /\ Goto(t, IF exc[t] = "none" THEN "returned" ELSE "raised")
                /\ UNCHANGED <<exc, in_except>>

\* stop() raises an Exception into its caller
StopRaise(t) ==
    /\ stop_self' = [stop_self EXCEPT ![t] = 0]
    /\ stop_caller' = [stop_caller EXCEPT ![t] = "none"]
    /\ CASE stop_caller[t] = "hw" ->
                RaiseInHandleWake(t)
         [] stop_caller[t] = "start" ->
                AfterStart(t, "Exception") /\ UNCHANGED in_except
         [] stop_caller[t] = "shutdown_again" ->
                /\ Goto(t, "raised_again")
                /\ exc' = [exc EXCEPT ![t] = "Exception"]
                /\ UNCHANGED in_except
         [] OTHER ->
                /\ Goto(t, "raised")
                /\ exc' = [exc EXCEPT ![t] = "Exception"]
                /\ UNCHANGED in_except

\* self._running = False
StopFlag(t) ==
    /\ pc[t] = "stop_flag"
    /\ det_running' = [det_running EXCEPT ![stop_self[t]] = FALSE]
    /\ Goto(t, "stop_check")
    /\ UNCHANGED <<assistantVars, det_recorder, det_porcupine, rec, localVars, ghostVars>>

\* if self._recorder is not None:
StopCheck(t) ==
    /\ pc[t] = "stop_check"
    /\ Goto(t, IF det_recorder[stop_self[t]] THEN "stop_recstop" ELSE "stop_porcupine")
    /\ UNCHANGED <<assistantVars, detVars, localVars, ghostVars>>

\* self._recorder.stop(): closes the microphone, or fails and leaves it open;
\* an error when another stop() has set the recorder to None or deleted it
StopRecStop(t) ==
    /\ pc[t] = "stop_recstop"
    /\ LET d == stop_self[t]
       IN  \/ /\ det_recorder[d] /\ rec[d] # "deleted"
              /\ rec' = [rec EXCEPT ![d] = "stopped"]
              /\ Goto(t, "stop_recdelete")
              /\ UNCHANGED <<stop_self, stop_caller, exc, in_except, fault>>
           \/ /\ det_recorder[d] /\ rec[d] = "started"
              /\ fault' = TRUE
              /\ StopRaise(t)
              /\ UNCHANGED rec
           \/ /\ ~(det_recorder[d] /\ rec[d] # "deleted")
              /\ StopRaise(t)
              /\ UNCHANGED <<rec, fault>>
    /\ UNCHANGED <<assistantVars, det_running, det_recorder, det_porcupine, result, reply,
                   ilog, exit_seen, interrupted>>

\* self._recorder.delete()
StopRecDelete(t) ==
    /\ pc[t] = "stop_recdelete"
    /\ LET d == stop_self[t]
       IN  IF det_recorder[d] /\ rec[d] # "deleted"
           THEN /\ rec' = [rec EXCEPT ![d] = "deleted"]
                /\ Goto(t, "stop_recnone")
                /\ UNCHANGED <<stop_self, stop_caller, exc, in_except>>
           ELSE /\ StopRaise(t)
                /\ UNCHANGED rec
    /\ UNCHANGED <<assistantVars, det_running, det_recorder, det_porcupine, result, reply,
                   ghostVars>>

\* self._recorder = None
StopRecNone(t) ==
    /\ pc[t] = "stop_recnone"
    /\ det_recorder' = [det_recorder EXCEPT ![stop_self[t]] = FALSE]
    /\ Goto(t, "stop_porcupine")
    /\ UNCHANGED <<assistantVars, det_running, det_porcupine, rec, localVars, ghostVars>>

\* if self._porcupine is not None: self._porcupine.delete(); self._porcupine = None
StopPorcupine(t) ==
    /\ pc[t] = "stop_porcupine"
    /\ det_porcupine' = [det_porcupine EXCEPT ![stop_self[t]] = FALSE]
    /\ StopReturn(t)
    /\ UNCHANGED <<assistantVars, det_running, det_recorder, rec, result, reply, ghostVars>>

\* ------------------------------------------------- Assistant._handle_wake

\* TextToSpeech.speak returns True (1), returns False (0) or raises (2)
SpeakOutcomes ==
    {1, 2}

\* self._tts.speak(text) inside the try block of _handle_wake
Speak(t, text, next) ==
    \E o \in SpeakOutcomes :
        /\ ilog' = Append(ilog, Ev("speak", text, <<>>, o))
        /\ IF o = 2
           THEN RaiseInHandleWake(t)
           ELSE Goto(t, next) /\ UNCHANGED <<exc, in_except>>

\* AfterCapture without the test on the stripped text
AfterCapture_BlankAccepted(r) ==
    IF ~r.success
    THEN "hw_notice"
    ELSE LET user_text == Strip(r.text)
         IN  IF is_exit_command(user_text) THEN "hw_farewell"
             ELSE IF is_reset_command(user_text) THEN "hw_reset"
             ELSE "hw_chat"

\* where _handle_wake goes with the TranscriptionResult r
AfterCapture(r) ==
    IF ~r.success \/ Strip(r.text) = <<>>
    THEN "hw_notice"
    ELSE LET user_text == Strip(r.text)
         IN  IF is_exit_command(user_text) THEN "hw_farewell"
             ELSE IF is_reset_command(user_text) THEN "hw_reset"
             ELSE "hw_chat"

\* HwAcquire with the result of acquire() ignored: the interaction starts
\* whether or not the lock was free
HwAcquire_AcquireIgnored(t) ==
    /\ pc[t] = "hw_acquire"
    /\ lock' = t
    /\ ilog' = <<>>
    /\ Goto(t, "hw_stop")
    /\ UNCHANGED <<running, wake, ndet, history, detVars, localVars, exit_seen, fault,
                   interrupted>>

\* if not self._interaction_lock.acquire(blocking=False):
HwAcquire(t) ==
    /\ pc[t] = "hw_acquire"
    /\ IF lock = 0
       THEN /\ lock' = t
            /\ ilog' = <<>>
            /\ Goto(t, "hw_stop")
       ELSE /\ Goto(t, "hw_skip")
            /\ UNCHANGED <<lock, ilog>>
    /\ UNCHANGED <<running, wake, ndet, history, detVars, localVars, exit_seen, fault,
                   interrupted>>

\* HwSkip that tries the lock again instead of returning
HwSkip_Retry(t) ==
    /\ pc[t] = "hw_skip"
    /\ Goto(t, "hw_acquire")
    /\ UNCHANGED <<assistantVars, detVars, localVars, ghostVars>>

\* logger.debug("Already handling an interaction, skipping."); return
HwSkip(t) ==
    /\ pc[t] = "hw_skip"
    /\ Goto(t, "loop")
    /\ UNCHANGED <<assistantVars, detVars, localVars, ghostVars>>

\* try: self._wake.stop()
HwStop(t) ==
    /\ pc[t] = "hw_stop"
    /\ stop_self' = [stop_self EXCEPT ![t] = wake]
    /\ stop_caller' = [stop_caller EXCEPT ![t] = "hw"]
    /\ ilog' = Append(ilog, Ev("stop", <<>>, <<>>, wake))
    /\ Goto(t, "stop_flag")
    /\ UNCHANGED <<assistantVars, detVars, exc, in_except, result, reply, exit_seen,
                   fault, interrupted>>

\* self._tts.speak("Yes?")
HwAck(t) ==
    /\ pc[t] = "hw_ack"
    /\ Speak(t, ACK_TEXT, "hw_capture")
    /\ UNCHANGED <<assistantVars, detVars, stop_self, stop_caller, result, reply,
                   exit_seen, fault, interrupted>>

\* result = self._stt.recognize_once() and the tests on result and user_text
HwCapture(t) ==
    /\ pc[t] = "hw_capture"
    /\ \/ \E r \in Results :
            /\ result' = [result EXCEPT ![t] = r]
            /\ ilog' = Append(ilog, Ev("capture", r.text, <<>>, IF r.success THEN 1 ELSE 0))
            /\ Goto(t, AfterCapture(r))
            /\ UNCHANGED <<exc, in_except>>
       \/ /\ ilog' = Append(ilog, Ev("capture", <<>>, <<>>, 2))
          /\ RaiseInHandleWake(t)
          /\ UNCHANGED result
    /\ UNCHANGED <<assistantVars, detVars, stop_self, stop_caller, reply, exit_seen,
                   fault, interrupted>>

\* more utterances a user may say to stop the assistant or to reset it: other
\* letter cases, and punctuation marks the recognizer may put around the words
SpokenCommands ==
    {T_GOODBYE_CAP_DOT, T_GOODBYE_UPPER, T_GOODBYE_BANG, T_EXIT_CAPS, T_START_OVER,
     T_CLEAR_QUERY, T_QUIT_LEADING, T_PADDED}

\* result = self._stt.recognize_once() when one of the transcripts of X was
\* recognized, and the tests on result and user_text
HwCaptureOf(t, X) ==
    /\ pc[t] = "hw_capture"
    /\ \E x \in X :
         LET r == [success |-> TRUE, text |-> x, reason |-> ""]
         IN  /\ result' = [result EXCEPT ![t] = r]
             /\ ilog' = Append(ilog, Ev("capture", x, <<>>, 1))
             /\ Goto(t, AfterCapture(r))
    /\ UNCHANGED <<assistantVars, detVars, stop_self, stop_caller, exc, in_except, reply,
                   exit_seen, fault, interrupted>>

\* the user says one of the commands in another form
HwCaptureCommand(t) ==
    HwCaptureOf(t, SpokenCommands)

\* the recognizer returns the words with whitespace around them
HwCapturePadded(t) ==
    HwCaptureOf(t, {T_PADDED})

\* self._tts.speak("I didn't catch that."); self._restart_wake_listener()
HwNotice(t) ==
    /\ pc[t] = "hw_notice"
    /\ Speak(t, NOTICE_TEXT, "restart_check")
    /\ UNCHANGED <<assistantVars, detVars, stop_self, stop_caller, result, reply,
                   exit_seen, fault, interrupted>>

\* self._tts.speak("Goodbye!")
HwFarewell(t) ==
    /\ pc[t] = "hw_farewell"
    /\ Speak(t, FAREWELL_TEXT, "hw_exit")
    /\ UNCHANGED <<assistantVars, detVars, stop_self, stop_caller, result, reply,
                   exit_seen, fault, interrupted>>

\* HwExit that returns without clearing the running flag
HwExit_FlagKept(t) ==
    /\ pc[t] = "hw_exit"
    /\ exit_seen' = TRUE
    /\ Goto(t, "hw_finally")
    /\ UNCHANGED <<assistantVars, detVars, localVars, ilog, fault, interrupted>>

\* an exit that also forgets the conversation
HwExit_SessionCleared(t) ==
    /\ pc[t] = "hw_exit"
    /\ running' = FALSE
    /\ exit_seen' = TRUE
    /\ history' = <<>>
    /\ Goto(t, "hw_finally")
    /\ UNCHANGED <<lock, wake, ndet, detVars, localVars, ilog, fault, interrupted>>

\* self._running = False; return
HwExit(t) ==
    /\ pc[t] = "hw_exit"
    /\ running' = FALSE
    /\ exit_seen' = TRUE
    /\ Goto(t, "hw_finally")
    /\ UNCHANGED <<lock, wake, ndet, history, detVars, localVars, ilog, fault, interrupted>>

\* self._brain.reset()
HwReset(t) ==
    /\ pc[t] = "hw_reset"
    /\ history' = <<>>
    /\ ilog' = Append(ilog, Ev("reset", <<>>, <<>>, 0))
    /\ Goto(t, "hw_confirm")
    /\ UNCHANGED <<running, lock, wake, ndet, detVars, localVars, exit_seen, fault,
                   interrupted>>

\* self._tts.speak("Conversation history cleared. Fresh start!")
HwConfirm(t) ==
    /\ pc[t] = "hw_confirm"
    /\ Speak(t, CONFIRM_TEXT, "restart_check")
    /\ UNCHANGED <<assistantVars, detVars, stop_self, stop_caller, result, reply,
                   exit_seen, fault, interrupted>>

\* reply = self._brain.chat(user_text): the collaborator answers (1), raises an
\* anthropic.APIError (0: the fallback is the reply), or chat raises (2)
HwChat(t) ==
    /\ pc[t] = "hw_chat"
    /\ LET user_text == Strip(result[t].text)
           sent == chat_request(history, user_text)
       IN  \/ \E r \in Replies :
                /\ history' = chat_reply(sent, r)
                /\ reply' = [reply EXCEPT ![t] = r]
                /\ ilog' = Append(ilog, Ev("chat", user_text, r, 1))
                /\ Goto(t, "hw_speak")
                /\ UNCHANGED <<exc, in_except>>
           \/ /\ history' = chat_reply(sent, FALLBACK_REPLY)
              /\ reply' = [reply EXCEPT ![t] = FALLBACK_REPLY]
              /\ ilog' = Append(ilog, Ev("chat", user_text, FALLBACK_REPLY, 0))
              /\ Goto(t, "hw_speak")
              /\ UNCHANGED <<exc, in_except>>
           \/ /\ history' = sent
              /\ ilog' = Append(ilog, Ev("chat", user_text, <<>>, 2))
              /\ RaiseInHandleWake(t)
              /\ UNCHANGED reply
    /\ UNCHANGED <<running, lock, wake, ndet, detVars, stop_self, stop_caller, result,
                   exit_seen, fault, interrupted>>

\* HwSpeak that speaks the user's text back instead of the reply
HwSpeak_Echo(t) ==
    /\ pc[t] = "hw_speak"
    /\ Speak(t, Strip(result[t].text), "restart_check")
    /\ UNCHANGED <<assistantVars, detVars, stop_self, stop_caller, result, reply,
                   exit_seen, fault, interrupted>>

\* self._tts.speak(reply)
HwSpeak(t) ==
    /\ pc[t] = "hw_speak"
    /\ Speak(t, reply[t], "restart_check")
    /\ UNCHANGED <<assistantVars, detVars, stop_self, stop_caller, result, reply,
                   exit_seen, fault, interrupted>>

\* an error recovery that restarts the listener without saying anything
HwExcept_Silent(t) ==
    /\ pc[t] = "hw_except"
    /\ Goto(t, "restart_check")
    /\ UNCHANGED <<assistantVars, detVars, localVars, ghostVars>>

\* except Exception: self._tts.speak("I ran into an error. Let me reset."),
\* itself inside try / except Exception: pass
HwExcept(t) ==
    /\ pc[t] = "hw_except"
    /\ \E o \in SpeakOutcomes :
            ilog' = Append(ilog, Ev("speak", APOLOGY_TEXT, <<>>, o))
    /\ Goto(t, "restart_check")
    /\ UNCHANGED <<assistantVars, detVars, localVars, exit_seen, fault, interrupted>>

\* HwFinally with the release at the end of the try block instead of in a
\* finally: an exception on its way out keeps the lock
HwFinally_ReleaseInTry(t) ==
    /\ pc[t] = "hw_finally"
    /\ lock' = IF exc[t] = "none" THEN 0 ELSE lock
    /\ ilog' = <<>>
    /\ result' = [result EXCEPT ![t] = NoResult]
    /\ reply' = [reply EXCEPT ![t] = <<>>]
    /\ in_except' = [in_except EXCEPT ![t] = FALSE]
    /\ IF exc[t] = "none"
       THEN Goto(t, "loop") /\ UNCHANGED exc
       ELSE /\ Goto(t, "start_finally")
            /\ exc' = [exc EXCEPT ![t] = IF exc[t] = "KeyboardInterrupt" THEN "none" ELSE exc[t]]
    /\ UNCHANGED <<running, wake, ndet, history, detVars, stop_self, stop_caller,
                   exit_seen, fault, interrupted>>

\* finally: self._interaction_lock.release(); then back in start(): the loop
\* goes on, or the exception is handled there
HwFinally(t) ==
    /\ pc[t] = "hw_finally"
    /\ lock' = 0
    /\ ilog' = <<>>
    /\ result' = [result EXCEPT ![t] = NoResult]
    /\ reply' = [reply EXCEPT ![t] = <<>>]
    /\ in_except' = [in_except EXCEPT ![t] = FALSE]
    /\ IF exc[t] = "none"
       THEN Goto(t, "loop") /\ UNCHANGED exc
       ELSE /\ Goto(t, "start_finally")
            /\ exc' = [exc EXCEPT ![t] = IF exc[t] = "KeyboardInterrupt" THEN "none" ELSE exc[t]]
    /\ UNCHANGED <<running, wake, ndet, history, detVars, stop_self, stop_caller,
                   exit_seen, fault, interrupted>>

\* the statements of _handle_wake that call self._tts.speak
SpeakPcs ==
    {"hw_ack", "hw_notice", "hw_farewell", "hw_confirm", "hw_speak", "hw_except"}

\* the text thread t hands to speak at the statement it is at
SpokenText(t) ==
    CASE pc[t] = "hw_ack" -> ACK_TEXT
      [] pc[t] = "hw_notice" -> NOTICE_TEXT
      [] pc[t] = "hw_farewell" -> FAREWELL_TEXT
      [] pc[t] = "hw_confirm" -> CONFIRM_TEXT
      [] pc[t] = "hw_speak" -> reply[t]
      [] OTHER -> APOLOGY_TEXT

\* the statement that follows the speak call at p
AfterSpeak(p) ==
    CASE p = "hw_ack" -> "hw_capture"
      [] p = "hw_farewell" -> "hw_exit"
      [] OTHER -> "restart_check"

\* a speak whose False is taken for a failure of the interaction
SpeakReturnsFalse_Raised(t) ==
    /\ pc[t] \in SpeakPcs
    /\ ilog' = Append(ilog, Ev("speak", SpokenText(t), <<>>, 0))
    /\ RaiseInHandleWake(t)
    /\ UNCHANGED <<assistantVars, detVars, stop_self, stop_caller, result, reply,
                   exit_seen, fault, interrupted>>

\* self._tts.speak(...) returns False (the synthesis was canceled): no
\* statement of _handle_wake looks at the value
SpeakReturnsFalse(t) ==
    /\ pc[t] \in SpeakPcs
    /\ ilog' = Append(ilog, Ev("speak", SpokenText(t), <<>>, 0))
    /\ Goto(t, AfterSpeak(pc[t]))
    /\ UNCHANGED <<assistantVars, detVars, stop_self, stop_caller, exc, in_except,
                   result, reply, exit_seen, fault, interrupted>>

\* ---------------------------------------- Assistant._restart_wake_listener

\* a restart entered after the lock was given up
RestartCheck_LockReleasedFirst(t) ==
    /\ pc[t] = "restart_check"
    /\ lock' = 0
    /\ ilog' = Append(ilog, Ev("restart", <<>>, <<>>, IF running THEN 1 ELSE 0))
    /\ Goto(t, IF running THEN "restart_new" ELSE "hw_finally")
    /\ UNCHANGED <<running, wake, ndet, history, detVars, localVars, exit_seen, fault,
                   interrupted>>

\* if not self._running: return
RestartCheck(t) ==
    /\ pc[t] = "restart_check"
    /\ ilog' = Append(ilog, Ev("restart", <<>>, <<>>, IF running THEN 1 ELSE 0))
    /\ Goto(t, IF running THEN "restart_new" ELSE "hw_finally")
    /\ UNCHANGED <<assistantVars, detVars, localVars, exit_seen, fault, interrupted>>

\* a restart that keeps the detector it has instead of constructing one
RestartNew_KeptDetector(t) ==
    /\ pc[t] = "restart_new"
    /\ ilog' = Append(ilog, Ev("new", <<>>, <<>>, wake))
    /\ Goto(t, "restart_spawn")
    /\ UNCHANGED <<assistantVars, detVars, localVars, exit_seen, fault, interrupted>>

\* self._wake = WakeWordDetector(...)
RestartNew(t) ==
    /\ pc[t] = "restart_new"
    /\ ndet < MaxDet
    /\ ndet' = ndet + 1
    /\ wake' = ndet + 1
    /\ ilog' = Append(ilog, Ev("new", <<>>, <<>>, ndet + 1))
    /\ Goto(t, "restart_spawn")
    /\ UNCHANGED <<running, lock, history, detVars, localVars, exit_seen, fault,
                   interrupted>>

\* time.sleep(0.3); threading.Thread(target=self._wake.start, ...).start():
\* the new thread exists, or the thread cannot be started (RuntimeError)
RestartSpawn(t) ==
    /\ pc[t] = "restart_spawn"
    /\ \/ /\ pc[wake] = "unborn"
          /\ pc' = [pc EXCEPT ![t] = "hw_finally", ![wake] = "start_porcupine"]
          /\ ilog' = Append(ilog, Ev("spawn", <<>>, <<>>, wake))
          /\ UNCHANGED <<exc, in_except, fault>>
       \/ /\ fault' = TRUE
          /\ ilog' = Append(ilog, Ev("spawn", <<>>, <<>>, 0))
          /\ RaiseInHandleWake(t)
    /\ UNCHANGED <<assistantVars, detVars, stop_self, stop_caller, result, reply,
                   exit_seen, interrupted>>

\* ------------------------------------------------------ Assistant.shutdown

\* self._running = False
Shutdown(t) ==
    /\ pc[t] = "shutdown"
    /\ running' = FALSE
    /\ Goto(t, "shutdown_stop")
    /\ UNCHANGED <<lock, wake, ndet, history, detVars, localVars, ghostVars>>

\* self._wake.stop()
ShutdownStop(t) ==
    /\ pc[t] = "shutdown_stop"
    /\ stop_self' = [stop_self EXCEPT ![t] = wake]
    /\ stop_caller' = [stop_caller EXCEPT ![t] = "shutdown"]
    /\ Goto(t, "stop_flag")
    /\ UNCHANGED <<assistantVars, detVars, exc, in_except, result, reply, ghostVars>>

\* the caller of run() calls shutdown() again after it has returned, any
\* number of times: self._running = False
ShutdownAgain(t) ==
    /\ pc[t] \in {"returned", "returned_again"}
    /\ running' = FALSE
    /\ Goto(t, "shutdown_again_stop")
    /\ UNCHANGED <<lock, wake, ndet, history, detVars, localVars, ghostVars>>

\* self._wake.stop() of a repeated shutdown()
ShutdownAgainStop(t) ==
    /\ pc[t] = "shutdown_again_stop"
    /\ stop_self' = [stop_self EXCEPT ![t] = wake]
    /\ stop_caller' = [stop_caller EXCEPT ![t] = "shutdown_again"]
    /\ Goto(t, "stop_flag")
    /\ UNCHANGED <<assistantVars, detVars, exc, in_except, result, reply, ghostVars>>
\* ------------------------------------------------------ KeyboardInterrupt

StopPcs ==
    {"stop_flag", "stop_check", "stop_recstop", "stop_recdelete", "stop_recnone",
     "stop_porcupine"}

\* the statements of _handle_wake after the lock was acquired, and of
\* _restart_wake_listener
HwPcs ==
    {"hw_stop", "hw_ack", "hw_capture", "hw_notice", "hw_farewell", "hw_exit",
     "hw_reset", "hw_confirm", "hw_chat", "hw_speak", "hw_except", "hw_finally",
     "restart_check", "restart_new", "restart_spawn"}

\* thread t is between acquiring and releasing the interaction lock
InInteraction(t) ==
    pc[t] \in HwPcs \/ (pc[t] \in StopPcs /\ stop_caller[t] = "hw")

\* Ctrl-C: Python raises KeyboardInterrupt in the main thread (thread 1) at
\* the statement it is executing. Inside _handle_wake only the finally handles
\* it; start() catches it inside its try; run() catches what start() lets out;
\* inside shutdown() it reaches the caller of run().
Interrupt ==
    /\ ~interrupted
    /\ pc[1] \notin {"run", "returned", "raised"}
    /\ interrupted' = TRUE
    /\ stop_self' = [stop_self EXCEPT ![1] = 0]
    /\ stop_caller' = [stop_caller EXCEPT ![1] = "none"]
    /\ CASE InInteraction(1) ->
                /\ Goto(1, "hw_finally")
                /\ exc' = [exc EXCEPT ![1] = "KeyboardInterrupt"]
         [] pc[1] \in {"loop", "read", "process", "hw_acquire", "hw_skip"} ->
                /\ Goto(1, "start_finally")
                /\ exc' = [exc EXCEPT ![1] = "none"]
         [] \/ pc[1] \in {"start_porcupine", "start_recorder", "start_recstart",
                          "start_setrunning", "start_finally"}
            \/ (pc[1] \in StopPcs /\ stop_caller[1] = "start") ->
                /\ Goto(1, "shutdown")
                /\ exc' = [exc EXCEPT ![1] = "none"]
         [] OTHER ->
                /\ Goto(1, "raised")
                /\ exc' = [exc EXCEPT ![1] = "KeyboardInterrupt"]
    /\ UNCHANGED <<assistantVars, detVars, in_except, result, reply, ilog, exit_seen,
                   fault>>

\* ----------------------------------------------------------- specification

Next ==
    \/ \E t \in Thread : Run(t)
    \/ \E t \in Thread : StartPorcupine(t)
    \/ \E t \in Thread : StartRecorder(t)
    \/ \E t \in Thread : StartRecStart(t)
    \/ \E t \in Thread : StartSetRunning(t)
    \/ \E t \in Thread : Loop(t)
    \/ \E t \in Thread : Read(t)
    \/ \E t \in Thread : Process(t)
    \/ \E t \in Thread : StartFinally(t)
    \/ \E t \in Thread : StopFlag(t)
    \/ \E t \in Thread : StopCheck(t)
    \/ \E t \in Thread : StopRecStop(t)
    \/ \E t \in Thread : StopRecDelete(t)
    \/ \E t \in Thread : StopRecNone(t)
    \/ \E t \in Thread : StopPorcupine(t)
    \/ \E t \in Thread : HwAcquire(t)
    \/ \E t \in Thread : HwSkip(t)
    \/ \E t \in Thread : HwStop(t)
    \/ \E t \in Thread : HwAck(t)
    \/ \E t \in Thread : HwCapture(t)
    \/ \E t \in Thread : HwNotice(t)
    \/ \E t \in Thread : HwFarewell(t)
    \/ \E t \in Thread : HwExit(t)
    \/ \E t \in Thread : HwReset(t)
    \/ \E t \in Thread : HwConfirm(t)
    \/ \E t \in Thread : HwChat(t)
    \/ \E t \in Thread : HwSpeak(t)
    \/ \E t \in Thread : HwExcept(t)
    \/ \E t \in Thread : HwFinally(t)
    \/ \E t \in Thread : RestartCheck(t)
    \/ \E t \in Thread : RestartNew(t)
    \/ \E t \in Thread : RestartSpawn(t)
    \/ \E t \in Thread : Shutdown(t)
    \/ \E t \in Thread : ShutdownStop(t)

\* the same with a Ctrl-C at any statement of thread 1
NextInterrupt ==
    \/ Next
    \/ Interrupt

\* every statement thread t can execute
Step(t) ==
    \/ Run(t) \/ StartPorcupine(t) \/ StartRecorder(t) \/ StartRecStart(t)
    \/ StartSetRunning(t) \/ Loop(t) \/ Read(t) \/ Process(t) \/ StartFinally(t)
    \/ StopFlag(t) \/ StopCheck(t) \/ StopRecStop(t) \/ StopRecDelete(t)
    \/ StopRecNone(t) \/ StopPorcupine(t)
    \/ HwAcquire(t) \/ HwSkip(t) \/ HwStop(t) \/ HwAck(t) \/ HwCapture(t)
    \/ HwNotice(t) \/ HwFarewell(t) \/ HwExit(t) \/ HwReset(t) \/ HwConfirm(t)
    \/ HwChat(t) \/ HwSpeak(t) \/ HwExcept(t) \/ HwFinally(t)
    \/ RestartCheck(t) \/ RestartNew(t) \/ RestartSpawn(t)
    \/ Shutdown(t) \/ ShutdownStop(t)

\* the assistant without a Ctrl-C
Spec ==
    Init /\ [][Next]_vars

\* the assistant with at most one Ctrl-C
SpecInterrupt ==
    Init /\ [][NextInterrupt]_vars

\* the operating system keeps running the thread that called run(), and every
\* blocking call it makes (speak, recognize_once, chat, read) comes back; that
\* thread waits for no other thread (the lock is tried, never waited for, and
\* the listener threads are daemons that are never joined), so nothing is
\* assumed about the scheduling of the listener threads
FairSpec ==
    Spec /\ WF_vars(Step(1))



\* the same with the caller of run() calling shutdown() again afterwards
NextAgain ==
    \/ Next
    \/ \E t \in Thread : ShutdownAgain(t)
    \/ \E t \in Thread : ShutdownAgainStop(t)

\* the assistant whose caller repeats shutdown() after run()
SpecAgain ==
    Init /\ [][NextAgain]_vars

\* a Ctrl-C that arrives while thread 1 is in the listener loop (the running
\* check, the read, the processing, the call of on_wake) or in an interaction
InterruptInLoop ==
    /\ InInteraction(1) \/ pc[1] \in {"loop", "read", "process", "hw_acquire", "hw_skip"}
    /\ Interrupt

\* the same as Next with such a Ctrl-C
NextInterruptInLoop ==
    \/ Next
    \/ InterruptInLoop

\* the assistant with at most one Ctrl-C, in the listener loop or an interaction
SpecInterruptInLoop ==
    Init /\ [][NextInterruptInLoop]_vars

\* the same with a speech output whose synthesis may be canceled
NextSpeakFalse ==
    \/ Next
    \/ \E t \in Thread : SpeakReturnsFalse(t)

SpecSpeakFalse ==
    Init /\ [][NextSpeakFalse]_vars

\* the same with a user who says the commands in other forms
NextCommands ==
    \/ Next
    \/ \E t \in Thread : HwCaptureCommand(t)

SpecCommands ==
    Init /\ [][NextCommands]_vars

\* the same with a recognizer that may pad its transcript with whitespace
NextPadded ==
    \/ Next
    \/ \E t \in Thread : HwCapturePadded(t)

SpecPadded ==
    Init /\ [][NextPadded]_vars

\* ------------------------------------ the ConversationEngine on its own

\* engine.chat("hi")
HI_TEXT ==
    <<"h", "i">>

\* f"msg {i}" and f"reply {i}" without the number
MSG_PREFIX ==
    <<"m", "s", "g", " ">>

REPLY_PREFIX ==
    <<"r", "e", "p", "l", "y", " ">>

DigitChars ==
    <<"0", "1", "2", "3", "4", "5", "6", "7", "8", "9">>

\* the decimal digits of i, as an f-string formats an int
RECURSIVE Decimal(_)
Decimal(i) ==
    IF i < 10
    THEN <<DigitChars[i + 1]>>
    ELSE Decimal(i \div 10) \o <<DigitChars[(i % 10) + 1]>>

\* the texts a caller passes to chat
EngineInputs ==
    {HI_TEXT}

\* everything but the engine's history and the log of the calls made on it
outsideEngine == <<running, lock, wake, ndet, detVars, localVars, exit_seen, fault,
                   interrupted, pc>>

\* the assistant is constructed and run() has not been called: the engine is
\* used through its own interface
EngineIdle ==
    pc[1] = "run"

\* engine._history.append(user "msg i"); engine._history.append(assistant
\* "reply i"): a test fills the history by hand before it calls the engine
EngineAppendPair ==
    /\ EngineIdle
    /\ ilog = <<>>
    /\ Len(history) < 2 * MaxPairs
    /\ LET i == Len(history) \div 2
       IN  history' = history \o
                <<ConversationMessage("user", MSG_PREFIX \o Decimal(i)),
                  ConversationMessage("assistant", REPLY_PREFIX \o Decimal(i))>>
    /\ UNCHANGED <<ilog, outsideEngine>>

\* engine._trim_history()
EngineTrim ==
    /\ EngineIdle
    /\ Len(ilog) < MaxCalls
    /\ history' = trim_history(history)
    /\ ilog' = Append(ilog, Ev("trim", history, <<>>, 0))
    /\ UNCHANGED outsideEngine

\* engine.reset()
EngineReset ==
    /\ EngineIdle
    /\ Len(ilog) < MaxCalls
    /\ history' = <<>>
    /\ ilog' = Append(ilog, Ev("reset", history, <<>>, 0))
    /\ UNCHANGED outsideEngine

\* the place of {name} in SYSTEM_PROMPT
NAME_FIELD ==
    "{name}"

\* SYSTEM_PROMPT, cut at its {name} field and at its line ends (the two dashes
\* of its second sentence are written "-")
SYSTEM_PROMPT ==
    <<"You are ", NAME_FIELD,
      ", an advanced AI voice assistant running on a Raspberry Pi.",
      "You are inspired by Jarvis and Griot from the Marvel universe - brilliant, warm, articulate, and occasionally witty.",
      "",
      "Guidelines:",
      "- Keep responses concise and conversational - they will be spoken aloud.",
      "- Aim for 1-3 sentences unless the user explicitly asks for detail.",
      "- Use natural, spoken-English phrasing (avoid bullet lists, markdown, or code blocks unless the user specifically asks for them).",
      "- If the user asks you to remember something, acknowledge it and weave it into context.",
      "- You may address the user respectfully; feel free to develop personality over time.",
      "- If you don't know something, say so honestly.">>

\* ConversationEngine.assistant_name, at its default
assistant_name ==
    "Griot"

\* ConversationEngine.system_prompt: SYSTEM_PROMPT.format(name=assistant_name)
system_prompt ==
    [k \in DOMAIN SYSTEM_PROMPT |->
        IF SYSTEM_PROMPT[k] = NAME_FIELD THEN assistant_name ELSE SYSTEM_PROMPT[k]]

\* the arguments of self._client.messages.create in chat: the preamble and
\* the messages of the session as it is after the append and the trim
create_request(h) ==
    [max_tokens |-> 512, system |-> system_prompt, messages |-> h]

\* one call of chat as the call log keeps it: its argument, what it returned
\* (n = 1 the collaborator's text, 0 the fallback, 2 nothing: it raised), the
\* session it found and the requests it made of the collaborator
ChatCall(user_text, ret, n, before, requests) ==
    [op |-> "chat", text |-> user_text, ret |-> ret, n |-> n,
     before |-> before, requests |-> requests]

\* a chat that takes its user message back when the call raises
EngineChat_RolledBack ==
    /\ EngineIdle
    /\ Len(ilog) < MaxCalls
    /\ \E user_text \in EngineInputs :
         LET sent == chat_request(history, user_text)
             requests == <<create_request(sent)>>
         IN  \/ \E r \in Replies :
                  /\ history' = chat_reply(sent, r)
                  /\ ilog' = Append(ilog, ChatCall(user_text, r, 1, history, requests))
             \/ /\ history' = chat_reply(sent, FALLBACK_REPLY)
                /\ ilog' = Append(ilog, ChatCall(user_text, FALLBACK_REPLY, 0,
                                                 history, requests))
             \/ /\ history' = history
                /\ ilog' = Append(ilog, ChatCall(user_text, <<>>, 2, history, requests))
    /\ UNCHANGED outsideEngine

\* engine.chat(user_text): the collaborator answers (1), raises an
\* anthropic.APIError (0: the fallback is returned), or answers with an empty
\* content list, so that response.content[0] raises IndexError out of chat (2)
EngineChat ==
    /\ EngineIdle
    /\ Len(ilog) < MaxCalls
    /\ \E user_text \in EngineInputs :
         LET sent == chat_request(history, user_text)
             requests == <<create_request(sent)>>
         IN  \/ \E r \in Replies :
                  /\ history' = chat_reply(sent, r)
                  /\ ilog' = Append(ilog, ChatCall(user_text, r, 1, history, requests))
             \/ /\ history' = chat_reply(sent, FALLBACK_REPLY)
                /\ ilog' = Append(ilog, ChatCall(user_text, FALLBACK_REPLY, 0,
                                                 history, requests))
             \/ /\ history' = sent
                /\ ilog' = Append(ilog, ChatCall(user_text, <<>>, 2, history, requests))
    /\ UNCHANGED outsideEngine

EngineNext ==
    \/ EngineAppendPair
    \/ EngineTrim
    \/ EngineReset
    \/ EngineChat

\* a ConversationEngine driven by a caller, as the tests of test_brain.py do
EngineSpec ==
    Init /\ [][EngineNext]_vars

\* --------------------------- a ConversationEngine constructed with max_history=0

\* ConversationEngine(max_history=0): conversation_history_limit set to 0
NO_HISTORY ==
    0

\* engine.chat(user_text) on that engine, with the same three outcomes
ZeroChat ==
    /\ EngineIdle
    /\ Len(ilog) < MaxCalls
    /\ \E user_text \in EngineInputs :
         LET sent == trim_to(Append(history, ConversationMessage("user", user_text)),
                             NO_HISTORY)
             requests == <<create_request(sent)>>
         IN  \/ \E r \in Replies :
                  /\ history' = chat_reply(sent, r)
                  /\ ilog' = Append(ilog, ChatCall(user_text, r, 1, history, requests))
             \/ /\ history' = chat_reply(sent, FALLBACK_REPLY)
                /\ ilog' = Append(ilog, ChatCall(user_text, FALLBACK_REPLY, 0,
                                                 history, requests))
             \/ /\ history' = sent
                /\ ilog' = Append(ilog, ChatCall(user_text, <<>>, 2, history, requests))
    /\ UNCHANGED outsideEngine

\* engine._trim_history() on that engine
ZeroTrim ==
    /\ EngineIdle
    /\ Len(ilog) < MaxCalls
    /\ history' = trim_to(history, NO_HISTORY)
    /\ ilog' = Append(ilog, Ev("trim", history, <<>>, 0))
    /\ UNCHANGED outsideEngine

ZeroNext ==
    \/ ZeroChat
    \/ ZeroTrim
    \/ EngineReset

\* that engine driven by a caller
ZeroSpec ==
    Init /\ [][ZeroNext]_vars
\* ----------------------------------------------- reading the interaction log

\* the positions of the log that hold a call of kind op
LogOps(op) ==
    {i \in 1..Len(ilog) : ilog[i].op = op}

\* the positions of the log where text was handed to TextToSpeech.speak
SpokenAt(text) ==
    {i \in 1..Len(ilog) : ilog[i].op = "speak" /\ ilog[i].text = text}

\* the detectors that hold a started microphone recorder
ActiveDetectors ==
    {d \in Det : rec[d] = "started"}

\* thread 1 is in the finally of run() (shutdown) or has left run()
RunLeaving ==
    \/ pc[1] \in {"shutdown", "shutdown_stop", "returned", "raised"}
    \/ (pc[1] \in StopPcs /\ stop_caller[1] = "shutdown")

\* ------------------------------------------------------------------ claims

\* C1: at most one invocation of _handle_wake is between acquiring and
\* releasing the interaction lock at any instant, whatever the detections
\* and their interleaving.
Inv_C1_MutualExclusion ==
    Cardinality({t \in Thread : InInteraction(t)}) <= 1

\* C1 witness: one thread is inside its interaction, holding the lock, while
\* the detection of the listener it has just started arrives at the lock.
Wit_C1_SecondDetection ==
    \E t, u \in Thread :
        t # u /\ InInteraction(t) /\ lock = t /\ pc[u] = "hw_acquire"

\* C2 (as claimed): without an interrupt and without a listener failure run()
\* returns, and its shutdown() executes, only after an exit phrase.
CE_C2_RunBlocksUntilExit ==
    RunLeaving => (exit_seen \/ interrupted \/ fault)

\* C3 (as claimed): the terminal state, running flag false and no listener
\* active, is reached only by an exit phrase or an interrupt.
CE_C3_TerminalOnlyByExit ==
    (pc[1] # "run" /\ ~running /\ ActiveDetectors = {})
        => (exit_seen \/ interrupted \/ fault)

\* C4 (as claimed): at most one detector holds a started recorder, also
\* after a failed listener stop.
CE_C4_OneActiveListener ==
    Cardinality(ActiveDetectors) <= 1

\* C5: the interaction lock is held only by a thread that is executing
\* _handle_wake: every way out of _handle_wake has released it.
Inv_C5_LockReleasedOnExit ==
    lock # 0 => InInteraction(lock)

\* C5 witness: _handle_wake was left by an exception raised in the recovery
\* (the restart's thread could not be started), and the lock is free.
Wit_C5_LeftByRecoveryError ==
    \E t \in Thread :
        /\ pc[t] = "start_finally" /\ exc[t] = "Exception"
        /\ wake # t /\ pc[wake] = "unborn" /\ fault
        /\ lock = 0

\* C6: a detection that finds the lock held returns at once and changes
\* nothing: the step from the failed acquire and the return leave every
\* variable but the thread's own position as it was, and the thread is back
\* in the listener loop, not waiting for the lock.
Prop_C6_DroppedDetectionNoEffect ==
    [][\A t \in Thread :
          ( /\ \/ pc[t] = "hw_acquire" /\ lock # 0
               \/ pc[t] = "hw_skip"
            /\ pc'[t] # pc[t]
            /\ interrupted' = interrupted )
          => /\ pc'[t] = IF pc[t] = "hw_acquire" THEN "hw_skip" ELSE "loop"
             /\ \A u \in Thread \ {t} : pc'[u] = pc[u]
             /\ UNCHANGED <<assistantVars, detVars, localVars, ghostVars>>]_vars

\* C6 witness: a detection was turned away.
Wit_C6_Dropped ==
    \E t \in Thread : pc[t] = "hw_skip" /\ lock \notin {0, t}

\* thread t has run its interaction to the end: only the release is left
Finishing(t) ==
    pc[t] = "hw_finally" /\ lock = t

\* thread t's interaction raised nothing and was not interrupted
Undisturbed(t) ==
    ~in_except[t] /\ exc[t] = "none"

\* what _restart_wake_listener may leave in the log when it returns: it found
\* the running flag cleared, or it constructed detector d and started its thread
RestartLogs ==
    {<<Ev("restart", <<>>, <<>>, 0)>>}
    \cup {<<Ev("restart", <<>>, <<>>, 1), Ev("new", <<>>, <<>>, d), Ev("spawn", <<>>, <<>>, d)>> :
            d \in Det}

\* the log from position i on
LogFrom(i) ==
    SubSeq(ilog, i, Len(ilog))

\* the first call of the interaction that raised: a collaborator call
\* (capture, chat, speak) that is not the apology; 0 if there is none, or if
\* the listener stop or a thread start failed before it
ServiceErrorAt ==
    LET bad == {i \in 1..Len(ilog) :
                  \/ ilog[i].op \in {"capture", "chat", "speak"} /\ ilog[i].n = 2
                  \/ ilog[i].op = "spawn" /\ ilog[i].n = 0}
        first == CHOOSE i \in bad : \A j \in bad : i <= j
    IN  IF bad = {} THEN 0
        ELSE IF ilog[first].op = "spawn" \/ ilog[first].text = APOLOGY_TEXT THEN 0
        ELSE first

\* C7 (as claimed): an error raised by capture, dialogue engine or speech
\* output leads to exactly one apology attempt and then to a listener
\* restart, and does not propagate; no interrupt and no device failure is
\* involved.
CE_C7_ErrorAlwaysRestarts ==
    \A t \in Thread :
        (Finishing(t) /\ ServiceErrorAt > 0 /\ ~fault /\ ~interrupted)
            => /\ Cardinality(SpokenAt(APOLOGY_TEXT)) = 1
               /\ \E i \in LogOps("spawn") : ilog[i].n > 0
               /\ exc[t] = "none"

\* the log of an interaction up to the capture of transcript x from detector d
CapturedLog(d, x) ==
    <<Ev("stop", <<>>, <<>>, d), Ev("speak", ACK_TEXT, <<>>, 1), Ev("capture", x, <<>>, 1)>>

\* C8, the state part: the exit interaction spoke the farewell, cleared the
\* running flag, called neither the dialogue engine nor the restart.
C8_ExitHandled ==
    \A t \in Thread :
        (Finishing(t) /\ Undisturbed(t) /\ result[t].text = T_GOODBYE_DOT)
            => /\ ilog = CapturedLog(ilog[1].n, T_GOODBYE_DOT)
                            \o <<Ev("speak", FAREWELL_TEXT, <<>>, 1)>>
               /\ ~running
               /\ exit_seen

\* thread 1 has left run()
RunOver ==
    pc[1] \in {"returned", "raised"}

CE_C10_ResetAlwaysRestarts ==
    \A t \in Thread :
        (Finishing(t) /\ Undisturbed(t) /\ ~interrupted /\ result[t].text = T_RESET)
            => /\ history = <<>>
               /\ SpokenAt(CONFIRM_TEXT) # {}
               /\ LogOps("chat") = {}
               /\ \E i \in LogOps("spawn") : ilog[i].n > 0


\* the transcription came back unsuccessful: NoMatch or Canceled
Unsuccessful(r) ==
    ~r.success /\ r.reason \in {"no_match", "canceled"}

\* C11 (as claimed): after an unsuccessful capture the notice is spoken, no
\* reasoning call is made and a new listener is started; and no step of that
\* interaction changes the dialogue history. No error and no interrupt is
\* involved.
CE_C11_NoMatchRestarts ==
    /\ [](\A t \in Thread :
            (Finishing(t) /\ Undisturbed(t) /\ ~interrupted /\ Unsuccessful(result[t]))
                => /\ SpokenAt(NOTICE_TEXT) # {}
                   /\ LogOps("chat") = {}
                   /\ \E i \in LogOps("spawn") : ilog[i].n > 0)
    /\ [][\A t \in Thread :
            (lock = t /\ Unsuccessful(result[t])) => history' = history]_vars

\* thread 1's call of shutdown() from run() has returned
ShutdownReturned ==
    pc[1] = "returned"

\* C12 (as claimed): once shutdown() has returned no detector holds a started
\* recorder, and no recorder is started afterwards, whatever the other
\* threads were doing; no device failure is involved.
CE_C12_NothingActiveAfterShutdown ==
    /\ []((ShutdownReturned /\ ~fault) => ActiveDetectors = {})
    /\ [][(ShutdownReturned /\ ~fault)
            => \A d \in Det : rec'[d] = "started" => rec[d] = "started"]_vars

\* thread 1 is inside a repeated call of shutdown()
InShutdownAgain ==
    \/ pc[1] = "shutdown_again_stop"
    \/ (pc[1] \in StopPcs /\ stop_caller[1] = "shutdown_again")

\* C13 (as claimed): a repeated shutdown() leaves the state the first call
\* left: no statement of it changes the running flag, the current listener
\* or any detector's resources, and it does not raise; no device failure is
\* involved.
CE_C13_ShutdownIdempotent ==
    [][((pc[1] \in {"returned", "returned_again"} \/ InShutdownAgain)
            /\ pc'[1] # pc[1] /\ ~fault)
        => /\ UNCHANGED <<running, wake, detVars>>
           /\ pc'[1] # "raised_again"]_vars

\* the listener loop of thread t failed on a recorder or engine that a stop()
\* has released: its read or process raised (no device call failed)
LoopFailed(t) ==
    pc[t] = "start_finally" /\ exc[t] = "Exception" /\ ~fault

\* C14 (as claimed): after a Ctrl-C in the listener loop or in an interaction
\* the shutdown makes no listener loop fail on a released recorder and run()
\* does not raise; no device failure is involved.
CE_C14_InterruptSafe ==
    (interrupted /\ ~fault)
        => /\ pc[1] # "raised"
           /\ \A t \in Thread : ~LoopFailed(t)

\* C15 (as claimed): a failed start or stop of a listener is fatal to run():
\* once one has failed, run() does not return normally, it raises.
CE_C15_ListenerFailureFatal ==
    (fault /\ RunOver) => pc[1] = "raised"

\* ------------------------------------------- claims on the engine's history

\* the last call made on the engine
LastCall ==
    ilog[Len(ilog)]

\* h consists of whole pairs: a user message, then an assistant message
WholePairs(h) ==
    /\ Len(h) % 2 = 0
    /\ \A k \in 1..Len(h) : h[k].role = IF k % 2 = 1 THEN "user" ELSE "assistant"

\* every chat call so far has returned (a reply or the fallback)
AllChatsReturned ==
    \A k \in LogOps("chat") : ilog[k].n # 2

\* C16 (as claimed): after every call of chat the session holds at most
\* 2 * max_history messages.
CE_C16_SessionWithinCap ==
    (ilog # <<>> /\ LastCall.op = "chat" /\ max_history >= 1)
        => Len(history) <= 2 * max_history

\* C17 (as claimed): after any sequence of chat calls that returned, on an
\* engine that held whole pairs, the session consists of whole user/assistant
\* pairs and so begins with a user message.
CE_C17_PairsNeverSplit ==
    (ilog # <<>> /\ LastCall.op = "chat" /\ AllChatsReturned /\ max_history >= 1)
        => WholePairs(history) /\ history[1].role = "user"

\* the k most recent messages of h, in their order
MostRecent(h, k) ==
    [j \in 1..k |-> h[Len(h) - k + j]]

\* C18: on a history of whole pairs longer than 2 * max_history,
\* _trim_history leaves exactly the 2 * max_history most recent messages in
\* their order; with max_history = 2 and the ten pairs of the test these are
\* "msg 8", "reply 8", "msg 9", "reply 9".
Inv_C18_TrimKeepsMostRecent ==
    (ilog # <<>> /\ LastCall.op = "trim" /\ max_history >= 1)
        => LET before == LastCall.text
           IN  /\ (WholePairs(before) /\ Len(before) > 2 * max_history)
                    => /\ Len(history) = 2 * max_history
                       /\ history = MostRecent(before, 2 * max_history)
                       /\ WholePairs(history)
               /\ (max_history = 2 /\ Len(ilog) = 1 /\ Len(before) = 20)
                    => history =
                         <<ConversationMessage("user", <<"m", "s", "g", " ", "8">>),
                           ConversationMessage("assistant", <<"r", "e", "p", "l", "y", " ", "8">>),
                           ConversationMessage("user", <<"m", "s", "g", " ", "9">>),
                           ConversationMessage("assistant", <<"r", "e", "p", "l", "y", " ", "9">>)>>

\* C18 witness: the test's ten pairs were trimmed to four messages.
Wit_C18_TenPairsTrimmed ==
    /\ ilog # <<>> /\ LastCall.op = "trim"
    /\ Len(LastCall.text) = 20 /\ WholePairs(LastCall.text)
    /\ Len(history) = 4

\* C19 (as claimed): chat never raises: whatever the collaborator does, an
\* API error or an empty response, chat returns, and on a failure it returns
\* the fallback text.
CE_C19_ChatNeverRaises ==
    \A k \in LogOps("chat") :
        /\ ilog[k].n # 2
        /\ ilog[k].n = 0 => ilog[k].ret = FALLBACK_REPLY

\* C20 (as claimed): reset() empties the session whatever it held, and
\* reset() followed by chat("hi") leaves exactly one user/assistant pair,
\* whatever the session held before the reset.
CE_C20_ResetThenChatOnePair ==
    /\ (ilog # <<>> /\ LastCall.op = "reset") => history = <<>>
    /\ (Len(ilog) >= 2 /\ ilog[Len(ilog) - 1].op = "reset"
            /\ LastCall.op = "chat" /\ LastCall.text = HI_TEXT)
        => /\ Len(history) = 2
           /\ history[1] = ConversationMessage("user", HI_TEXT)
           /\ history[2].role = "assistant"

\* ------------------------------------------------- claims C21 to C30

\* h ends with the messages of tail, in their order
EndsWith(h, tail) ==
    /\ Len(h) >= Len(tail)
    /\ \A j \in 1..Len(tail) : h[Len(h) - Len(tail) + j] = tail[j]

\* C21: when the collaborator succeeds, chat(user_text) calls it exactly
\* once, with the system preamble and with the trimmed session whose last
\* message is the user message just appended; it returns exactly the
\* collaborator's text; and it appends exactly one user and one assistant
\* message, so that an empty session holds two messages afterwards.
Inv_C21_ChatSuccess ==
    \A k \in LogOps("chat") :
        ilog[k].n = 1 =>
            LET c == ilog[k]
                user == ConversationMessage("user", c.text)
                appended == Append(c.before, user)
                request == c.requests[1]
            IN  /\ Len(c.requests) = 1
                /\ request.system = system_prompt
                /\ request.system[2] = assistant_name
                /\ request.messages # <<>>
                /\ request.messages[Len(request.messages)] = user
                /\ EndsWith(appended, request.messages)
                /\ max_history >= 1 =>
                     Len(request.messages)
                        = IF Len(appended) > 2 * max_history
                          THEN 2 * max_history ELSE Len(appended)
                /\ c.ret \in Replies
                /\ k = Len(ilog) =>
                     /\ history = request.messages
                                    \o <<ConversationMessage("assistant", c.ret)>>
                     /\ c.before = <<>> =>
                          history = <<user, ConversationMessage("assistant", c.ret)>>

\* C21 witness: a successful chat on an empty session and, after it, a
\* successful chat on a session already at its cap.
Wit_C21_ChatOnEmptyAndFull ==
    /\ Len(ilog) >= 2
    /\ ilog[1].op = "chat" /\ ilog[1].n = 1 /\ ilog[1].before = <<>>
    /\ LastCall.op = "chat" /\ LastCall.n = 1
    /\ Len(LastCall.before) >= 2 * max_history
    /\ Len(history) = 2 * max_history + 1

\* detector d has never been used: start() was not called on it and it holds
\* no resource
Unused(d) ==
    /\ pc[d] \in {"run", "unborn"}
    /\ rec[d] = "absent"
    /\ ~det_recorder[d] /\ ~det_porcupine[d] /\ ~det_running[d]

\* C22: every listening phase uses a newly constructed detector. The
\* detector a restart is about to start is the one it has just constructed and
\* has never been used; start() is entered only on an unused detector, for a
\* restart on a thread that did not exist, and the thread that was inside a
\* detector's start() never enters it again.
Prop_C22_FreshDetectorPerPhase ==
    /\ [](\A t \in Thread :
            pc[t] = "restart_spawn" =>
                /\ wake = ndet /\ wake # t
                /\ Unused(wake)
                /\ \E i \in LogOps("new") : ilog[i].n = wake)
    /\ [][\A d \in Det :
            /\ (pc'[d] = "start_porcupine" /\ pc[d] # "start_porcupine") =>
                  /\ Unused(d)
                  /\ d # 1 => (wake = d /\ \E t \in Thread : pc[t] = "restart_spawn"
                                                               /\ lock = t)
            /\ pc'[d] \in {"run", "unborn"} => pc[d] = pc'[d]]_vars

\* C22 witness: the second listening phase has begun on detector 2 and
\* thread 2, after detector 1 was stopped and released.
Wit_C22_SecondPhaseOnNewDetector ==
    /\ pc[2] \in {"loop", "read", "process"}
    /\ rec[2] = "started"
    /\ rec[1] = "deleted" /\ ~det_running[1]
    /\ wake = 2

\* the statements of start() before its loop
StartingPcs ==
    {"start_porcupine", "start_recorder", "start_recstart", "start_setrunning"}

\* thread t is at self._stt.recognize_once(): the capture has the microphone
Capturing(t) ==
    pc[t] = "hw_capture" /\ lock = t

\* C23 (as claimed): while recognize_once is executing no detector holds a
\* started recorder, and no new listener is constructed or started before it
\* has returned: none is being started during the capture, and in no
\* interaction does a capture follow the construction or the start of a
\* listener.
CE_C23_MicrophoneHandOff ==
    /\ \A t \in Thread :
         Capturing(t) =>
            /\ ActiveDetectors = {}
            /\ \A d \in Det : pc[d] \notin StartingPcs
            /\ LogOps("new") = {} /\ LogOps("spawn") = {}
            /\ LogOps("stop") # {}
    /\ \A i \in LogOps("new") \cup LogOps("spawn") :
         \A k \in LogOps("capture") : k < i

\* thread t's step is the call of op on the recorder of detector d, made by
\* a stop() that found the recorder not None
RecorderCall(t, d, op) ==
    /\ pc[t] = op /\ pc'[t] # op
    /\ stop_self[t] = d
    /\ det_recorder[d]

\* C24 (as claimed): under every interleaving of the stop() calls made by
\* _handle_wake, by start()'s finally and by shutdown(), no recorder is
\* stopped twice and none is deleted twice.
CE_C24_RecorderReleasedOnce ==
    [][\A t \in Thread, d \in Det :
         /\ RecorderCall(t, d, "stop_recstop") => rec[d] \notin {"stopped", "deleted"}
         /\ RecorderCall(t, d, "stop_recdelete") => rec[d] # "deleted"]_vars

\* shutdown(), on the main thread, has called stop() on detector 2, the
\* detector of the listener thread, and the call has returned; no device call
\* has failed
StoppedByShutdown ==
    /\ pc[1] = "returned"
    /\ ndet = 2 /\ wake = 2
    /\ ~fault

\* C25 (as claimed): once stop() has been called on a detector from another
\* thread, the detector does not invoke the detection callback again, also
\* when the stop() ran before start() had opened the recorder.
CE_C25_NoCallbackAfterStop ==
    [][StoppedByShutdown => ~(pc[2] = "process" /\ pc'[2] = "hw_acquire")]_vars

\* the interaction of thread t, about to release the lock, went through all
\* its steps: it ends with the exit decision, with the restart of the
\* listener, or with an exception raised inside the error recovery
RanToCompletion(t) ==
    \/ /\ exit_seen /\ ~running
       /\ SpokenAt(FAREWELL_TEXT) # {}
       /\ LogOps("restart") = {}
    \/ /\ ilog # <<>>
       /\ \/ ilog[Len(ilog)].op = "spawn"
          \/ ilog[Len(ilog)].op = "restart" /\ ilog[Len(ilog)].n = 0
       /\ LogOps("stop") # {}
    \/ in_except[t] /\ exc[t] = "Exception"

\* C26: from the acquire to the release the lock is held by the thread that
\* is in _handle_wake, in every state of the interaction (listener stop,
\* acknowledgement, capture, reasoning, speaking, restart or exit decision),
\* and by no thread outside it, so the release is the last thing _handle_wake
\* does on every path; unless Ctrl-C cuts it short, the interaction that is
\* about to release the lock has run to completion.
Inv_C26_LockHeldToTheEnd ==
    \A t \in Thread :
        /\ InInteraction(t) <=> lock = t
        /\ (Finishing(t) /\ ~interrupted) => RanToCompletion(t)

\* C26 witness: the interaction of the second listener is about to release
\* the lock after a reply was spoken and the restart was reached.
Wit_C26_SecondInteractionComplete ==
    /\ Finishing(2) /\ Undisturbed(2)
    /\ SpokenAt(REPLY_TEXT) # {}
    /\ LogOps("restart") # {}

\* every speak call of the interaction in the log returned True
AllSpoken ==
    \A i \in LogOps("speak") : ilog[i].n = 1

\* C27 (as claimed): an interaction in which the reasoning collaborator
\* failed, while every other service worked, does not see an exception from
\* chat: the fallback reply is spoken as the reply, the generic apology is
\* not spoken, and the listener restart is reached.
CE_C27_CollaboratorFailureContained ==
    \A t \in Thread :
        (Finishing(t) /\ ~interrupted /\ ~fault /\ AllSpoken) =>
            \A k \in LogOps("chat") :
                ilog[k].n # 1 =>
                    /\ ilog[k].n = 0
                    /\ ~in_except[t] /\ exc[t] = "none"
                    /\ Len(ilog) > k
                    /\ ilog[k + 1] = Ev("speak", FALLBACK_REPLY, <<>>, 1)
                    /\ SpokenAt(APOLOGY_TEXT) = {}
                    /\ \E i \in LogOps("restart") : i > k + 1

\* the log with every speak that returned False read as one that returned True
AsIfSpoken(log) ==
    [i \in DOMAIN log |->
        IF log[i].op = "speak" /\ log[i].n = 0
        THEN Ev("speak", log[i].text, <<>>, 1)
        ELSE log[i]]

\* no call of the interaction in the log raised, and the listener stop returned
NothingRaised ==
    /\ SpokenAt(ACK_TEXT) # {}
    /\ \A i \in 1..Len(ilog) :
         /\ ilog[i].op \in {"capture", "chat", "speak"} => ilog[i].n # 2
         /\ ilog[i].op = "spawn" => ilog[i].n # 0

\* C28: speak returning False, at the acknowledgement, the notice, the
\* confirmation or the reply, changes nothing: an interaction in which no
\* call raised goes through exactly the steps it goes through when every
\* speak succeeds, reaches the listener restart, and never enters the error
\* recovery (the apology is not spoken, no exception is pending).
Inv_C28_SpeakFalseNotFatal ==
    \A t \in Thread :
        (Finishing(t) /\ NothingRaised) =>
            LET log == AsIfSpoken(ilog)
                next == AfterCapture(result[t])
            IN  /\ Undisturbed(t)
                /\ SpokenAt(APOLOGY_TEXT) = {}
                /\ Len(log) >= 4
                /\ log[1].op = "stop"
                /\ log[2] = Ev("speak", ACK_TEXT, <<>>, 1)
                /\ log[3].op = "capture" /\ log[3].text = result[t].text
                /\ next = "hw_notice" =>
                     /\ log[4] = Ev("speak", NOTICE_TEXT, <<>>, 1)
                     /\ LogFrom(5) \in RestartLogs
                /\ next = "hw_reset" =>
                     /\ log[4].op = "reset"
                     /\ log[5] = Ev("speak", CONFIRM_TEXT, <<>>, 1)
                     /\ LogFrom(6) \in RestartLogs
                /\ next = "hw_chat" =>
                     /\ log[4].op = "chat"
                     /\ log[5] = Ev("speak", log[4].ret, <<>>, 1)
                     /\ LogFrom(6) \in RestartLogs
                /\ next = "hw_farewell" =>
                     /\ Len(log) = 4
                     /\ log[4] = Ev("speak", FAREWELL_TEXT, <<>>, 1)
                     /\ exit_seen

\* C28 witness: the acknowledgement and the reply both returned False, and
\* the interaction has restarted the listener.
Wit_C28_SilentInteractionRestarted ==
    \E t \in Thread :
        /\ Finishing(t) /\ Undisturbed(t)
        /\ Len(ilog) >= 6
        /\ ilog[2] = Ev("speak", ACK_TEXT, <<>>, 0)
        /\ ilog[4].op = "chat"
        /\ ilog[5].op = "speak" /\ ilog[5].n = 0
        /\ \E i \in LogOps("spawn") : ilog[i].n > 0

\* C29 (as claimed): after a chat call in which the collaborator failed, the
\* session ends with the user message of the call followed by the fixed
\* fallback apology as the assistant message, that is, with one user and one
\* assistant message appended as on success.
CE_C29_FallbackAppended ==
    (ilog # <<>> /\ LastCall.op = "chat" /\ LastCall.n # 1) =>
        EndsWith(history, <<ConversationMessage("user", LastCall.text),
                            ConversationMessage("assistant", FALLBACK_REPLY)>>)

\* punctuation marks
Punctuation ==
    {".", ",", "!", "?", ";", ":"}

\* a transcript as the claim normalises it: lower-cased, with the
\* whitespace and the punctuation around it trimmed
Trimmed(text) ==
    Lower(LStripChars(RStripChars(text, Whitespace \cup Punctuation),
                      Whitespace \cup Punctuation))

\* C30 (as claimed): an interaction takes the exit branch exactly when the
\* transcript, lower-cased and with surrounding whitespace and punctuation
\* trimmed, is an exit phrase, and the reset branch exactly when it is a reset
\* phrase, whatever the letter case and whatever punctuation mark leads or
\* trails: "Goodbye.", "GOODBYE" and "goodbye!" all end the run.
CE_C30_CommandsWhateverPunctuation ==
    \A t \in Thread :
        (lock = t /\ result[t].success
                /\ pc[t] \in {"hw_notice", "hw_farewell", "hw_reset", "hw_chat"}) =>
            /\ pc[t] = "hw_farewell" <=> Trimmed(result[t].text) \in exit_phrases
            /\ pc[t] = "hw_reset" <=> Trimmed(result[t].text) \in reset_phrases

\* ------------------------------------------------- claims C31 to C38

\* C31 (as claimed): on an engine with max_history = 0 the cap is 0 messages
\* and _trim_history honours it: after a trim the session fits the cap, and
\* after a chat it holds no more than the one message appended after the
\* trim, so it does not grow with the number of calls.
CE_C31_ZeroCapHonoured ==
    /\ (ilog # <<>> /\ LastCall.op = "trim") => Len(history) <= 2 * NO_HISTORY
    /\ (ilog # <<>> /\ LastCall.op = "chat") => Len(history) <= 2 * NO_HISTORY + 1

\* thread t, in its interaction, is about to call _restart_wake_listener
Restarting(t) ==
    pc[t] = "restart_check" /\ lock = t

\* C32: an interaction that is about to restart the listener after an error
\* has made a speak call for it, whatever came of the call: the notice after
\* a no-match or canceled capture, the fallback after a reasoning failure that
\* chat converted, the apology after a reasoning failure that chat let out and
\* after any other unexpected error (the except branch was entered).
Inv_C32_ErrorsAreSpoken ==
    \A t \in Thread :
        Restarting(t) =>
            /\ (\E k \in LogOps("capture") : ilog[k].n = 0) => SpokenAt(NOTICE_TEXT) # {}
            /\ (\E k \in LogOps("chat") : ilog[k].n = 0) => SpokenAt(FALLBACK_REPLY) # {}
            /\ (\E k \in LogOps("chat") : ilog[k].n = 2) => SpokenAt(APOLOGY_TEXT) # {}
            /\ in_except[t] => SpokenAt(APOLOGY_TEXT) # {}
            /\ ilog[Len(ilog)].op = "speak"

\* C32 witness: the capture raised, the apology was attempted and returned
\* False, and the listener was restarted.
Wit_C32_ApologyThenRestart ==
    \E t \in Thread :
        /\ Finishing(t) /\ in_except[t]
        /\ \E k \in LogOps("capture") : ilog[k].n = 2
        /\ \E j \in SpokenAt(APOLOGY_TEXT) : ilog[j].n = 0
        /\ \E i \in LogOps("spawn") : ilog[i].n > 0

\* every character of x is whitespace (the empty text included)
Blank(x) ==
    \A i \in 1..Len(x) : x[i] \in Whitespace

\* inner is outer without the whitespace around it: outer is whitespace,
\* then inner, then whitespace, and inner neither begins nor ends with one
StrippedOf(inner, outer) ==
    /\ inner # <<>>
    /\ inner[1] \notin Whitespace /\ inner[Len(inner)] \notin Whitespace
    /\ \E i \in 1..Len(outer) :
         /\ i + Len(inner) - 1 <= Len(outer)
         /\ SubSeq(outer, i, i + Len(inner) - 1) = inner
         /\ Blank(SubSeq(outer, 1, i - 1))
         /\ Blank(SubSeq(outer, i + Len(inner), Len(outer)))

\* C33: the dialogue engine is never called with an empty or whitespace-only
\* text: what chat is given is the captured text of a successful capture
\* without the whitespace around it; and a capture that reports success with
\* blank text is handled as not caught: the notice is spoken, chat is not
\* called, the session is left alone and the restart is called.
Inv_C33_NoBlankTranscriptToEngine ==
    \A t \in Thread :
        lock = t =>
            /\ \A k \in LogOps("chat") :
                 /\ result[t].success
                 /\ ~Blank(ilog[k].text)
                 /\ StrippedOf(ilog[k].text, result[t].text)
            /\ (result[t].success /\ Blank(result[t].text)) =>
                 /\ pc[t] # "hw_chat"
                 /\ LogOps("chat") = {} /\ LogOps("reset") = {}
                 /\ (Finishing(t) /\ NothingRaised) =>
                      /\ ilog[4] = Ev("speak", NOTICE_TEXT, <<>>, 1)
                      /\ LogFrom(5) \in RestartLogs
    /\ \A k \in 1..Len(history) : ~Blank(history[k].content)

\* C33 witness: an interaction whose capture succeeded with blank text has
\* spoken the notice and called the restart, after an earlier interaction
\* whose padded transcript " ok. " reached the engine as "ok.".
Wit_C33_BlankAfterPadded ==
    /\ Finishing(2) /\ Undisturbed(2)
    /\ result[2].success /\ result[2].text = T_BLANK
    /\ SpokenAt(NOTICE_TEXT) # {}
    /\ LogOps("restart") # {}
    /\ history # <<>>
    /\ history[1] = ConversationMessage("user", <<"o", "k", ".">>)

\* the interaction in progress has called neither chat nor reset
SessionUntouched ==
    LogOps("chat") = {} /\ LogOps("reset") = {}

\* C34: the session's messages change only in the step of an interaction
\* that calls chat or reset, and that step is logged; so an interaction with
\* a no-match or canceled capture, one handling an exit command, and one whose
\* error was raised before the capture returned have not touched the session,
\* and neither does a dropped detection, which is not the lock holder's step.
Prop_C34_SessionFrame ==
    /\ [][history' # history =>
            \E t \in Thread :
                /\ lock = t /\ lock' = t
                /\ pc[t] \in {"hw_chat", "hw_reset"} /\ pc'[t] # pc[t]
                /\ Len(ilog') = Len(ilog) + 1
                /\ ilog'[Len(ilog')].op = IF pc[t] = "hw_chat" THEN "chat" ELSE "reset"]_vars
    /\ [](\A t \in Thread :
            lock = t =>
                /\ Unsuccessful(result[t]) => SessionUntouched
                /\ (result[t].success /\ AfterCapture(result[t]) = "hw_farewell")
                      => SessionUntouched
                /\ (in_except[t] /\ result[t] = NoResult) => SessionUntouched
                /\ pc[t] \in {"hw_stop", "hw_ack", "hw_capture"} => SessionUntouched)

\* C34 witness: the second interaction handled an exit command and is about
\* to end, and the session still holds the exchange of the first.
Wit_C34_ExitKeepsSession ==
    /\ Finishing(2) /\ exit_seen
    /\ result[2].text = T_GOODBYE_DOT
    /\ Len(history) = 2
    /\ history[1] = ConversationMessage("user", T_WEATHER)

\* no two neighbouring messages of h have the same role
Alternating(h) ==
    \A k \in 1..(Len(h) - 1) : h[k].role # h[k + 1].role

\* the calls made on the engine so far are chat and reset calls only
OnlyChatAndReset ==
    \A k \in 1..Len(ilog) : ilog[k].op \in {"chat", "reset"}

\* C35: after any sequence of chat and reset calls in which every chat
\* returned, on an engine that held whole pairs, the roles of the session
\* alternate strictly between user and assistant, and the session is empty or
\* ends with an assistant message.
Inv_C35_RolesAlternate ==
    (OnlyChatAndReset /\ AllChatsReturned) =>
        /\ Alternating(history)
        /\ \A k \in 1..Len(history) : history[k].role \in {"user", "assistant"}
        /\ history = <<>> \/ history[Len(history)].role = "assistant"

\* C35 witness: after a reset and chats that returned, the session is over
\* its cap by one message and begins with an assistant message.
Wit_C35_OddSessionAlternates ==
    /\ OnlyChatAndReset /\ AllChatsReturned
    /\ LogOps("reset") # {}
    /\ LastCall.op = "chat"
    /\ Len(history) = 2 * max_history + 1
    /\ history[1].role = "assistant"

\* C36: a chat that raises leaves the session as it was sent, ending with
\* the user message of the call and no assistant message after it; a chat
\* called next finds that session and sends the collaborator a message list
\* whose last two messages are both user messages.
Inv_C36_NoRollbackOnRaise ==
    \A k \in LogOps("chat") :
        ilog[k].n = 2 =>
            LET sent == ilog[k].requests[1].messages
                user == ConversationMessage("user", ilog[k].text)
            IN  /\ sent # <<>> /\ sent[Len(sent)] = user
                /\ k = Len(ilog) => history = sent
                /\ (k < Len(ilog) /\ ilog[k + 1].op = "chat" /\ max_history >= 1) =>
                     LET next == ilog[k + 1].requests[1].messages
                     IN  /\ ilog[k + 1].before = sent
                         /\ Len(next) >= 2
                         /\ next[Len(next) - 1] = user
                         /\ next[Len(next)]
                              = ConversationMessage("user", ilog[k + 1].text)

\* C36 witness: a chat raised and the next chat, which returned, was sent two
\* user messages in a row.
Wit_C36_TwoUserMessagesSent ==
    /\ Len(ilog) = 2
    /\ ilog[1].op = "chat" /\ ilog[1].n = 2
    /\ ilog[2].op = "chat" /\ ilog[2].n = 1
    /\ Len(history) = 3
    /\ history[1].role = "user" /\ history[2].role = "user"

\* the farewell of the interaction in the log was handed to speak, and speak
\* raised
FarewellRaised ==
    \E i \in SpokenAt(FAREWELL_TEXT) : ilog[i].n = 2

\* C37 (as claimed): when speaking the farewell raises, the interaction
\* does not clear the running flag and recovers as from any other error: the
\* apology is attempted once, nothing propagates, and a listener is started,
\* so that the assistant keeps listening. No interrupt and no device failure
\* is involved.
CE_C37_FailedFarewellKeepsListening ==
    \A t \in Thread :
        (Finishing(t) /\ FarewellRaised /\ ~fault /\ ~interrupted) =>
            /\ ~exit_seen
            /\ Cardinality(SpokenAt(APOLOGY_TEXT)) = 1
            /\ exc[t] = "none"
            /\ running
            /\ \E i \in LogOps("spawn") : ilog[i].n > 0

\* the listener threads the interaction in the log has started
Spawned ==
    {i \in LogOps("spawn") : ilog[i].n > 0}

\* thread t is in _restart_wake_listener past its test of the running flag:
\* the construction of a detector and the start of its thread follow
PastRunningCheck(t) ==
    pc[t] \in {"restart_new", "restart_spawn"} /\ lock = t

\* C38 (as claimed): an interaction starts at most one listener thread, an
\* exit interaction starts none, and an interaction that finishes after the
\* running flag was cleared starts none: once the flag is cleared no
\* interaction is on its way to start one.
CE_C38_AtMostOneListenerStarted ==
    \A t \in Thread :
        lock = t =>
            /\ Cardinality(Spawned) <= 1
            /\ exit_seen => Spawned = {}
            /\ ~running => ~PastRunningCheck(t)
====
